---- MODULE Spec2Model ----
(***************************************************************************)
(* Monty Hall simulator (monty.py): generate_game, reveal_goat, the three  *)
(* strategy evaluators and run, modelled as one interpreter session that   *)
(* makes a single top-level call and executes it loop iteration by loop    *)
(* iteration.  Doors are functions over the Python indices 0..2; a batch   *)
(* is a list object, i.e. an identity plus a sequence of games.            *)
(***************************************************************************)
EXTENDS Integers, Sequences, FiniteSets

\* ---------------------------------------------------------------- bounds
MaxN    == 3   \* largest argument of a top-level generate_game call
MaxNeg  == 2   \* how many negative arguments are tried (-1 .. -MaxNeg)
MaxLen  == 2   \* longest batch handed directly to an evaluator
MaxIter == 6   \* largest argument of run

\* ------------------------------------------------------ values and helpers
\* Python's None, as returned by reveal_goat when it falls off its loop.
\* It is only ever compared with 1 and 2, never used as an index.
None == -1

\* A local name that has not been assigned yet.
Unbound == -2

Indices == 0 .. 2

AllDoors == [Indices -> BOOLEAN]

\* The lists of at most len three-slot boolean games a caller can pass in.
Batches(len) == UNION {[1 .. k -> AllDoors] : k \in 0 .. len}

Abs(x) == IF x < 0 THEN 0 - x ELSE x

RECURSIVE GCD(_, _)
GCD(a, b) == IF b = 0 THEN a ELSE GCD(b, a % b)

\* True division a / b of two ints, b # 0: the quotient as a fraction in
\* lowest terms with a positive denominator (two divisions give the same
\* float exactly when they give the same fraction, for the small ints here).
Frac(a, b) ==
    LET g == GCD(Abs(a), Abs(b))
        s == IF b < 0 THEN 0 - 1 ELSE 1
    IN  <<(s * a) \div g, (s * b) \div g>>

\* q * 2 for a quotient q.
Times2(q) == Frac(q[1] * 2, q[2])

\* doors = [False] * 3; doors[winner] = True
new_doors_shifted(winner) == [j \in Indices |-> j = winner + 1]
new_doors(winner) == [j \in Indices |-> j = winner]

\* for _ in range(n): is there another iteration after i of them?
range_next_inclusive(i, n) == i <= n
range_next(i, n) == i < n

\* for i in range(1, 3): if doors[i] == False: return i   (else None)
reveal_goat_from_zero(d) ==
    IF d[0] = FALSE THEN 0
    ELSE IF d[1] = FALSE THEN 1
    ELSE IF d[2] = FALSE THEN 2
    ELSE None
reveal_goat(d) ==
    IF d[1] = FALSE THEN 1
    ELSE IF d[2] = FALSE THEN 2
    ELSE None

\* new_choice = 1 if goat == 2 else 2
switch_new_choice_swapped(g) == IF g = 1 THEN 1 ELSE 2
switch_new_choice(g) == IF g = 2 THEN 1 ELSE 2

\* final_choice = 0 if new_choice == 0 else 2 if goat == 1 else 1
random_final_choice_swapped(c, g) == IF c = 0 THEN 0 ELSE IF g = 2 THEN 2 ELSE 1
random_final_choice(c, g) == IF c = 0 THEN 0 ELSE IF g = 1 THEN 2 ELSE 1

\* if (doors[0] == True)
keep_wins_door1(d) == d[1] = TRUE
keep_wins(d) == d[0] = TRUE

\* history.append(wins / attempts)
running_ratio_late(w, a) == Frac(w, a + 1)
running_ratio(w, a) == Frac(w, a)

\* switched_wins / iterations * 2
rate(w, it) == Times2(Frac(w, it))

\* ------------------------------------------------------------------ state
VARIABLES
    pc,            \* the function whose body is executing, "idle" or "done"
    op,            \* the top-level call of this session
    run_pc,        \* the line of run being executed (0 outside run)
    nextId,        \* identity given to the next list object created
    draws,         \* the values randint has returned so far, in order
    calls,         \* <<evaluator, identity of its argument>> per call made
    n, i,          \* generate_game: argument, iterations of range(n) done
    game,          \* generate_game's list / the evaluators' argument
    doors, goat, new_choice, final_choice,   \* evaluator loop locals
    wins, attempts, history,                 \* evaluator tallies
    iterations, run_game, switched_wins, stayed_wins,   \* run's locals
    ret            \* what the top-level call returned or raised

vars == <<pc, op, run_pc, nextId, draws, calls, n, i, game, doors, goat,
          new_choice, final_choice, wins, attempts, history, iterations,
          run_game, switched_wins, stayed_wins, ret>>

genLocals  == <<n, i>>
loopLocals == <<doors, goat, new_choice, final_choice>>
tallies    == <<wins, attempts, history>>
runLocals  == <<iterations, run_game, switched_wins, stayed_wins>>

EmptyList == [id |-> 0, games |-> <<>>]

Init ==
    /\ pc = "idle" /\ op = "none" /\ run_pc = 0
    /\ nextId = 1 /\ draws = <<>> /\ calls = <<>>
    /\ n = 0 /\ i = 0 /\ game = EmptyList
    /\ doors = <<>> /\ goat = Unbound
    /\ new_choice = Unbound /\ final_choice = Unbound
    /\ wins = 0 /\ attempts = 0 /\ history = <<>>
    /\ iterations = 0 /\ run_game = EmptyList
    /\ switched_wins = Unbound /\ stayed_wins = Unbound
    /\ ret = [tag |-> "none"]

\* ---------------------------------------------------------- generate_game
\* Entering generate_game(k): game = [] creates a new list object.
EnterGenerateGame(k) ==
    /\ pc' = "generate_game"
    /\ n' = k /\ i' = 0
    /\ game' = [id |-> nextId, games |-> <<>>]
    /\ nextId' = nextId + 1

CallGenerateGame(k) ==
    /\ pc = "idle"
    /\ op' = "generate_game"
    /\ EnterGenerateGame(k)
    /\ UNCHANGED <<run_pc, draws, calls, loopLocals, tallies, runLocals, ret>>

\* One iteration of the loop, winner being what randint(0, 2) returns.
GenerateStep(winner) ==
    /\ pc = "generate_game"
    /\ range_next(i, n)
    /\ draws' = Append(draws, winner)
    /\ game' = [game EXCEPT !.games = Append(@, new_doors(winner))]
    /\ i' = i + 1
    /\ UNCHANGED <<pc, op, run_pc, nextId, calls, n, loopLocals, tallies,
                   runLocals, ret>>

\* return game: to run's line 93, or to the top level.
GenerateReturn ==
    /\ pc = "generate_game"
    /\ ~ range_next(i, n)
    /\ IF run_pc = 93
       THEN /\ run_game' = game
            /\ run_pc' = 94 /\ pc' = "run"
            /\ UNCHANGED ret
       ELSE /\ ret' = [tag |-> "list", val |-> game]
            /\ pc' = "done"
            /\ UNCHANGED <<run_pc, run_game>>
    /\ UNCHANGED <<op, nextId, draws, calls, genLocals, game, loopLocals,
                   tallies, iterations, switched_wins, stayed_wins>>

\* ------------------------------------------------------------ reveal_goat
CallRevealGoat(d) ==
    /\ pc = "idle"
    /\ op' = "reveal_goat"
    /\ doors' = d
    /\ ret' = [tag |-> "index", val |-> reveal_goat(d)]
    /\ pc' = "done"
    /\ UNCHANGED <<run_pc, nextId, draws, calls, genLocals, game, goat,
                   new_choice, final_choice, tallies, runLocals>>

\* ------------------------------------------------------------- evaluators
\* Entering evaluator name with the list b: wins = 0, attempts = 0
\* (and history = [] in simulate_random_choice); loop locals are unbound.
EnterEvaluator(name, b) ==
    /\ pc' = name
    /\ game' = b
    /\ calls' = Append(calls, <<name, b.id>>)
    /\ wins' = 0 /\ attempts' = 0 /\ history' = <<>>
    /\ doors' = <<>> /\ goat' = Unbound
    /\ new_choice' = Unbound /\ final_choice' = Unbound

\* A top-level caller builds the list b itself and passes it in.
CallEvaluator(name, b) ==
    /\ pc = "idle"
    /\ op' = name
    /\ EnterEvaluator(name, [id |-> nextId, games |-> b])
    /\ nextId' = nextId + 1
    /\ UNCHANGED <<run_pc, draws, genLocals, runLocals, ret>>

CallKeep(b)   == CallEvaluator("simulate_keep_choice", b)
CallSwitch(b) == CallEvaluator("simulate_switch_choice", b)
CallRandom(b) == CallEvaluator("simulate_random_choice", b)

\* for doors in game: attempts counts the iterations, so the next element
\* the iterator yields is the one after the first attempts of them.
HasNextGame == attempts < Len(game.games)
NextGame == game.games[attempts + 1]

KeepStep ==
    /\ pc = "simulate_keep_choice"
    /\ HasNextGame
    /\ doors' = NextGame
    /\ attempts' = attempts + 1
    /\ wins' = IF keep_wins(NextGame) THEN wins + 1 ELSE wins
    /\ UNCHANGED <<pc, op, run_pc, nextId, draws, calls, genLocals, game,
                   goat, new_choice, final_choice, history, runLocals, ret>>

KeepReturn ==
    /\ pc = "simulate_keep_choice"
    /\ ~ HasNextGame
    /\ IF run_pc = 95
       THEN /\ stayed_wins' = wins
            /\ run_pc' = 96 /\ pc' = "run"
            /\ UNCHANGED ret
       ELSE /\ ret' = [tag |-> "int", val |-> wins]
            /\ pc' = "done"
            /\ UNCHANGED <<run_pc, stayed_wins>>
    /\ UNCHANGED <<op, nextId, draws, calls, genLocals, game, loopLocals,
                   tallies, iterations, run_game, switched_wins>>

SwitchStep ==
    /\ pc = "simulate_switch_choice"
    /\ HasNextGame
    /\ doors' = NextGame
    /\ attempts' = attempts + 1
    /\ goat' = reveal_goat(NextGame)
    /\ new_choice' = switch_new_choice(goat')
    /\ wins' = IF NextGame[new_choice'] = TRUE THEN wins + 1 ELSE wins
    /\ UNCHANGED <<pc, op, run_pc, nextId, draws, calls, genLocals, game,
                   final_choice, history, runLocals, ret>>

SwitchReturn ==
    /\ pc = "simulate_switch_choice"
    /\ ~ HasNextGame
    /\ IF run_pc = 94
       THEN /\ switched_wins' = wins
            /\ run_pc' = 95 /\ pc' = "run"
            /\ UNCHANGED ret
       ELSE /\ ret' = [tag |-> "int", val |-> wins]
            /\ pc' = "done"
            /\ UNCHANGED <<run_pc, switched_wins>>
    /\ UNCHANGED <<op, nextId, draws, calls, genLocals, game, loopLocals,
                   tallies, iterations, run_game, stayed_wins>>

\* One iteration, bit being what randint(0, 1) returns.
RandomStep(bit) ==
    /\ pc = "simulate_random_choice"
    /\ HasNextGame
    /\ doors' = NextGame
    /\ attempts' = attempts + 1
    /\ goat' = reveal_goat(NextGame)
    /\ draws' = Append(draws, bit)
    /\ new_choice' = bit
    /\ final_choice' = random_final_choice(bit, goat')
    /\ wins' = IF NextGame[final_choice'] = TRUE THEN wins + 1 ELSE wins
    /\ history' = Append(history, running_ratio(wins', attempts'))
    /\ UNCHANGED <<pc, op, run_pc, nextId, calls, genLocals, game,
                   runLocals, ret>>

RandomReturn ==
    /\ pc = "simulate_random_choice"
    /\ ~ HasNextGame
    /\ ret' = [tag |-> "pair", val |-> <<wins, history>>]
    /\ pc' = "done"
    /\ UNCHANGED <<op, run_pc, nextId, draws, calls, genLocals, game,
                   loopLocals, tallies, runLocals>>

\* -------------------------------------------------------------------- run
CallRun(k) ==
    /\ pc = "idle"
    /\ op' = "run"
    /\ iterations' = k
    /\ pc' = "run" /\ run_pc' = 93
    /\ UNCHANGED <<nextId, draws, calls, genLocals, game, loopLocals,
                   tallies, run_game, switched_wins, stayed_wins, ret>>

\* game = generate_game(iterations // 2)
RunLine93 ==
    /\ pc = "run" /\ run_pc = 93
    /\ EnterGenerateGame(iterations \div 2)
    /\ UNCHANGED <<op, run_pc, draws, calls, loopLocals, tallies, runLocals,
                   ret>>

\* switched_wins = simulate_switch_choice(game)
RunLine94 ==
    /\ pc = "run" /\ run_pc = 94
    /\ EnterEvaluator("simulate_switch_choice", run_game)
    /\ UNCHANGED <<op, run_pc, nextId, draws, genLocals, runLocals, ret>>

\* A run that gives the keep strategy a batch of its own.
RunLine95_fresh ==
    /\ pc = "run" /\ run_pc = 95
    /\ \E b \in [1 .. Len(run_game.games) -> {new_doors(w) : w \in Indices}] :
          EnterEvaluator("simulate_keep_choice", [id |-> nextId, games |-> b])
    /\ nextId' = nextId + 1
    /\ UNCHANGED <<op, run_pc, draws, genLocals, runLocals, ret>>

\* stayed_wins = simulate_keep_choice(game)
RunLine95 ==
    /\ pc = "run" /\ run_pc = 95
    /\ EnterEvaluator("simulate_keep_choice", run_game)
    /\ UNCHANGED <<op, run_pc, nextId, draws, genLocals, runLocals, ret>>

\* return switched_wins / iterations * 2, stayed_wins / iterations * 2
RunLine96 ==
    /\ pc = "run" /\ run_pc = 96
    /\ ret' = IF iterations = 0
              THEN [tag |-> "ZeroDivisionError"]
              ELSE [tag |-> "rates",
                    val |-> <<rate(switched_wins, iterations),
                              rate(stayed_wins, iterations)>>]
    /\ pc' = "done"
    /\ UNCHANGED <<op, run_pc, nextId, draws, calls, genLocals, game,
                   loopLocals, tallies, runLocals>>

\* ---------------------------------------------------------- specification
Next ==
    \/ \E k \in (0 - MaxNeg) .. MaxN : CallGenerateGame(k)
    \/ \E w \in Indices : GenerateStep(w)
    \/ GenerateReturn
    \/ \E d \in AllDoors : CallRevealGoat(d)
    \/ \E b \in Batches(MaxLen) : CallKeep(b)
    \/ \E b \in Batches(MaxLen) : CallSwitch(b)
    \/ \E b \in Batches(MaxLen) : CallRandom(b)
    \/ KeepStep
    \/ KeepReturn
    \/ SwitchStep
    \/ SwitchReturn
    \/ \E bit \in 0 .. 1 : RandomStep(bit)
    \/ RandomReturn
    \/ \E k \in (0 - MaxNeg) .. MaxIter : CallRun(k)
    \/ RunLine93
    \/ RunLine94
    \/ RunLine95
    \/ RunLine96

Spec == Init /\ [][Next]_vars

\* ------------------------------------------------------------ properties
\* A game is well formed when exactly one of its slots is true.
WellFormed(d) == Cardinality({j \in Indices : d[j] = TRUE}) = 1

AllWellFormed(b) == \A k \in 1 .. Len(b) : WellFormed(b[k])

PrizeAtZero(b) == Cardinality({k \in 1 .. Len(b) : b[k][0] = TRUE})

PrizeNotAtZero(b) == Cardinality({k \in 1 .. Len(b) : b[k][0] = FALSE})

IsGame(d) == DOMAIN d = Indices /\ (\A j \in Indices : d[j] \in BOOLEAN)

ShapedBatch(b, size) ==
    /\ Len(b) = size
    /\ \A k \in 1 .. Len(b) : IsGame(b[k]) /\ WellFormed(b[k])

\* C1: for every n >= 0 and every outcome of the door draws, the batch
\* generate_game(n) returns (to the top level, or to run) has exactly n
\* games, each with 3 boolean slots of which exactly one is true.
C1_GeneratedBatchShape ==
    /\ (op = "generate_game" /\ pc = "done" /\ n >= 0)
          => (ret.tag = "list" /\ ShapedBatch(ret.val.games, n))
    /\ (op = "run" /\ run_pc >= 94 /\ n >= 0)
          => ShapedBatch(run_game.games, n)

C1_Witness ==
    /\ op = "generate_game" /\ pc = "done" /\ n >= 2
    /\ ret.val.games[1][0] = TRUE /\ ret.val.games[2][2] = TRUE

GoatOK(d, g) ==
    /\ g \in {1, 2}
    /\ g # 0
    /\ d[g] = FALSE
    /\ \A j \in Indices : d[j] = TRUE => g # j
    /\ d[0] = TRUE => g = 1

\* C2: on a well-formed game reveal_goat returns an index in {1, 2} whose
\* slot is false, never 0 and never the prize door, and 1 when the prize is
\* at index 0; whether called directly or from an evaluator's loop.
C2_RevealGoatOpensGoat ==
    /\ (op = "reveal_goat" /\ pc = "done" /\ WellFormed(doors))
          => GoatOK(doors, ret.val)
    /\ (goat # Unbound /\ WellFormed(doors)) => GoatOK(doors, goat)

C2_Witness ==
    /\ op = "reveal_goat" /\ pc = "done"
    /\ doors[0] = TRUE /\ WellFormed(doors) /\ ret.val = 1

\* C3: on a batch of well-formed games simulate_switch_choice returns the
\* number of games whose prize is not at index 0 (so 1 or 0 on a single
\* game, according to whether index 0 is not or is the prize).
C3_SwitchCountsPrizeNotAtZero ==
    /\ (op = "simulate_switch_choice" /\ pc = "done"
            /\ AllWellFormed(game.games))
          => (ret.tag = "int" /\ ret.val = PrizeNotAtZero(game.games))
    /\ (op = "run" /\ run_pc >= 95 /\ AllWellFormed(run_game.games))
          => switched_wins = PrizeNotAtZero(run_game.games)

C3_Witness ==
    /\ op = "simulate_switch_choice" /\ pc = "done"
    /\ Len(game.games) = 2 /\ AllWellFormed(game.games)
    /\ game.games[1][0] = TRUE /\ game.games[2][1] = TRUE
    /\ ret.val = 1

\* C4: on every batch, well formed or not, simulate_keep_choice returns the
\* number of games whose slot 0 is true.
C4_KeepCountsPrizeAtZero ==
    /\ (op = "simulate_keep_choice" /\ pc = "done")
          => (ret.tag = "int" /\ ret.val = PrizeAtZero(game.games))
    /\ (op = "run" /\ run_pc >= 96)
          => stayed_wins = PrizeAtZero(run_game.games)

C4_Witness ==
    /\ op = "simulate_keep_choice" /\ pc = "done"
    /\ Len(game.games) = 2
    /\ game.games[1][0] = TRUE /\ game.games[2][0] = FALSE
    /\ ret.val = 1

\* The random strategy wins a well-formed game d under bit when it keeps
\* and the prize is at 0, or switches and the prize is elsewhere.
RandomWins(d, bit) ==
    \/ bit = 0 /\ d[0] = TRUE
    \/ bit # 0 /\ d[0] = FALSE

WinsAfter(b, bits, k) ==
    Cardinality({j \in 1 .. k : RandomWins(b[j], bits[j])})

C5_State ==
    (op = "simulate_random_choice" /\ AllWellFormed(game.games)) =>
        /\ Len(history) = attempts
        /\ \A k \in 1 .. Len(history) :
              history[k] = Frac(WinsAfter(game.games, draws, k), k)
        /\ pc = "done" =>
              /\ ret.tag = "pair"
              /\ ret.val[1] = WinsAfter(game.games, draws, Len(game.games))
              /\ Len(ret.val[2]) = Len(game.games)
              /\ Len(game.games) > 0 =>
                    ret.val[2][Len(game.games)]
                        = Frac(ret.val[1], Len(game.games))

\* C5: for every well-formed batch and every sequence of keep/switch bits,
\* the history of simulate_random_choice has one entry per game processed,
\* its k-th entry is wins-after-k-games / k, the returned history has the
\* length of the batch and ends in win_count / batch size, and no step
\* changes an entry that was already appended.
C5_HistoryRunningRatio ==
    [][ /\ C5_State'
        /\ Len(history') >= Len(history)
        /\ \A k \in 1 .. Len(history) : history'[k] = history[k] ]_vars

C5_Witness ==
    /\ op = "simulate_random_choice" /\ pc = "done"
    /\ AllWellFormed(game.games)
    /\ ret.val[1] = 1
    /\ ret.val[2] = << <<0, 1>>, <<1, 2>> >>

\* C6: a negative argument is rejected with an InvalidArgument error before
\* any simulation work begins, by generate_game and by run.
C6_NegativeRejected ==
    /\ (op = "generate_game" /\ n < 0) =>
          /\ game.games = <<>>
          /\ pc = "done" => ret.tag = "InvalidArgument"
    /\ (op = "run" /\ iterations < 0) =>
          /\ calls = <<>>
          /\ nextId = 1
          /\ pc = "done" => ret.tag = "InvalidArgument"

InUnit(q) == 0 <= q[1] /\ q[1] <= q[2]

\* C7: for every iterations >= 2, odd included, each rate run returns is
\* that strategy's win count divided by the number of games in the batch
\* (iterations // 2 of them), and so lies in [0, 1].
C7_RateIsWinsOverBatch ==
    (op = "run" /\ pc = "done" /\ iterations >= 2) =>
        /\ ret.tag = "rates"
        /\ Len(run_game.games) = iterations \div 2
        /\ ret.val[1] = Frac(switched_wins, Len(run_game.games))
        /\ ret.val[2] = Frac(stayed_wins, Len(run_game.games))
        /\ InUnit(ret.val[1]) /\ InUnit(ret.val[2])

\* C8 as stated: in run the switch strategy and the keep strategy are each
\* evaluated against their own freshly generated batch, not the same one.
C8_SeparateBatches ==
    (op = "run" /\ Len(calls) = 2) => calls[1][2] # calls[2][2]

\* C8 as amended: run creates exactly one batch, of iterations // 2 games
\* (none when that is negative), and evaluates both the switch strategy and
\* the keep strategy against that same batch.
C8_OneSharedBatch ==
    (op = "run" /\ run_pc >= 94) =>
        /\ nextId = 2
        /\ Len(run_game.games)
              = (IF iterations \div 2 < 0 THEN 0 ELSE iterations \div 2)
        /\ \A k \in 1 .. Len(calls) : calls[k][2] = run_game.id
        /\ run_pc >= 95 => game = run_game
        /\ pc = "done" =>
              calls = << <<"simulate_switch_choice", run_game.id>>,
                         <<"simulate_keep_choice", run_game.id>> >>

C8_Witness ==
    /\ op = "run" /\ pc = "done" /\ iterations = 4
    /\ Len(calls) = 2 /\ calls[1][2] = calls[2][2]
    /\ switched_wins = 1 /\ stayed_wins = 1

\* C9: generate_game(0) returns an empty batch, and on an empty batch the
\* keep and switch evaluators return 0 and the random evaluator returns 0
\* wins with an empty history, none of them raising.
C9_EmptyBatch ==
    /\ (op = "generate_game" /\ pc = "done" /\ n = 0)
          => (ret.tag = "list" /\ ret.val.games = <<>>)
    /\ (op = "run" /\ run_pc >= 94 /\ n = 0) => run_game.games = <<>>
    /\ (op = "run" /\ run_pc >= 95 /\ run_game.games = <<>>)
          => switched_wins = 0
    /\ (op = "run" /\ run_pc >= 96 /\ run_game.games = <<>>)
          => stayed_wins = 0
    /\ (op \in {"simulate_keep_choice", "simulate_switch_choice"}
            /\ pc = "done" /\ game.games = <<>>)
          => ret = [tag |-> "int", val |-> 0]
    /\ (op = "simulate_random_choice" /\ pc = "done" /\ game.games = <<>>)
          => (ret.tag = "pair" /\ ret.val = <<0, <<>>>>)

C9_Witness ==
    /\ op = "run" /\ pc = "done" /\ iterations = 1
    /\ n = 0 /\ run_game.games = <<>>
    /\ switched_wins = 0 /\ stayed_wins = 0

\* C10: in each iteration of simulate_random_choice on a well-formed game
\* the final choice is door 0 when the bit selects keep and otherwise the
\* door simulate_switch_choice switches to (the one of doors 1 and 2 that
\* reveal_goat did not open); it is never the opened door, and the game is
\* counted as a win iff the final-choice slot is true, i.e. iff keep and
\* prize at 0, or switch and prize not at 0.
C10_RandomChoiceMatchesSwitch ==
    [][ (pc = "simulate_random_choice" /\ attempts' = attempts + 1
            /\ WellFormed(doors')) =>
          /\ new_choice' = 0 => final_choice' = 0
          /\ new_choice' # 0 =>
                /\ final_choice' = switch_new_choice(reveal_goat(doors'))
                /\ final_choice' \in {1, 2} \ {goat'}
          /\ final_choice' # goat'
          /\ wins' \in {wins, wins + 1}
          /\ (wins' = wins + 1) <=> (doors'[final_choice'] = TRUE)
          /\ (wins' = wins + 1) <=> RandomWins(doors', new_choice') ]_vars

C10_Witness ==
    /\ op = "simulate_random_choice" /\ pc = "simulate_random_choice"
    /\ attempts = 1 /\ wins = 1
    /\ doors[2] = TRUE /\ WellFormed(doors)
    /\ new_choice = 1 /\ goat = 1 /\ final_choice = 2

====
